---- MODULE Spec2Model ----
(***************************************************************************)
(* Min-Meet: the session transcript engine of src/app.py.                  *)
(*                                                                         *)
(* A text is a sequence of one-character strings, so that strip, lower,    *)
(* startswith, endswith, len, split and the regular expressions of the     *)
(* classifiers are computed on the characters as the code computes them.   *)
(* A running average is an integer in units of 1/Unit: the smoothing       *)
(* 0.3*sample + 0.7*old is exact in these units for as many matches as a   *)
(* transcript of the bounded length can hold.                              *)
(***************************************************************************)
EXTENDS Integers, Sequences, FiniteSets, TLC

\* Python's None, for a dict key that is absent or a field set to None.
\* Every number the program stores in such a place is >= 0.
None == -1

(***************************************************************************)
(* Characters and the string primitives of Python used by the code.        *)
(***************************************************************************)
UpperCase == <<"A","B","C","D","E","F","G","H","I","J","K","L","M",
               "N","O","P","Q","R","S","T","U","V","W","X","Y","Z">>
LowerCase == <<"a","b","c","d","e","f","g","h","i","j","k","l","m",
               "n","o","p","q","r","s","t","u","v","w","x","y","z">>
Digits == {"0","1","2","3","4","5","6","7","8","9"}
Punctuation == {" ", "?", ".", "'", "-", ",", "!"}

Range(s) == {s[i] : i \in DOMAIN s}

\* [x] * n
Repeat(x, n) == [i \in 1..n |-> x]

Chars == Range(UpperCase) \cup Range(LowerCase) \cup Digits \cup Punctuation \cup {"_"}

\* str.lower() on one character
ToLower == [c \in Chars |->
              IF c \in Range(UpperCase)
              THEN LowerCase[CHOOSE i \in 1..26 : UpperCase[i] = c]
              ELSE c]

\* str.lower()
lower(t) == [i \in 1..Len(t) |-> ToLower[t[i]]]

\* \s of the regular expressions and the whitespace of strip() and split()
IsSpace(c) == c = " "

\* \w of the regular expressions
WordChars == Range(UpperCase) \cup Range(LowerCase) \cup Digits \cup {"_"}
IsWordChar(c) == c \in WordChars

\* the text t holds p at position i
HasAt(t, i, p) ==
  /\ i >= 1
  /\ i + Len(p) - 1 <= Len(t)
  /\ \A k \in 1..Len(p) : t[i + k - 1] = p[k]

\* str.startswith / str.endswith / the `in` of strings
startswith(t, p) == HasAt(t, 1, p)
endswith(t, p) == HasAt(t, Len(t) - Len(p) + 1, p)
Contains(t, p) == \E i \in 1..(Len(t) - Len(p) + 1) : HasAt(t, i, p)

\* str.strip()
strip(t) ==
  IF \A i \in 1..Len(t) : IsSpace(t[i]) THEN <<>>
  ELSE LET first == CHOOSE i \in 1..Len(t) :
                      ~IsSpace(t[i]) /\ \A k \in 1..(i - 1) : IsSpace(t[k])
           last == CHOOSE i \in 1..Len(t) :
                      ~IsSpace(t[i]) /\ \A k \in (i + 1)..Len(t) : IsSpace(t[k])
       IN SubSeq(t, first, last)

\* str.split()[0] of a text with at least one non-blank character
FirstWord(t) ==
  LET s == strip(t)
      stop == IF \E i \in 1..Len(s) : IsSpace(s[i])
              THEN (CHOOSE i \in 1..Len(s) :
                      IsSpace(s[i]) /\ \A k \in 1..(i - 1) : ~IsSpace(s[k])) - 1
              ELSE Len(s)
  IN SubSeq(s, 1, stop)

\* \b of the regular expressions, in front of position i (1..Len(t)+1)
WordBoundary(t, i) ==
  LET left == i > 1 /\ IsWordChar(t[i - 1])
      right == i <= Len(t) /\ IsWordChar(t[i])
  IN left # right

\* re.search(r'\b(a1|a2|...)\s+(b1|b2|...)', t)
SearchWordSpaceWord(t, as, bs) ==
  \E i \in 1..Len(t) :
    /\ WordBoundary(t, i)
    /\ \E n \in 1..Len(as) :
         /\ HasAt(t, i, as[n])
         /\ \E j \in (i + Len(as[n]) + 1)..Len(t) :
              /\ \A k \in (i + Len(as[n]))..(j - 1) : IsSpace(t[k])
              /\ \E m \in 1..Len(bs) : HasAt(t, j, bs[m])

\* re.search(r'\b(a1|a2|...)\s+\w+', t)
SearchPhraseThenWord(t, as) ==
  \E i \in 1..Len(t) :
    /\ WordBoundary(t, i)
    /\ \E n \in 1..Len(as) :
         /\ HasAt(t, i, as[n])
         /\ \E j \in (i + Len(as[n]) + 1)..Len(t) :
              /\ \A k \in (i + Len(as[n]))..(j - 1) : IsSpace(t[k])
              /\ IsWordChar(t[j])

\* re.search(r'\b(a1|a2|...)\b', t)
SearchWholePhrase(t, as) ==
  \E i \in 1..Len(t) :
    /\ WordBoundary(t, i)
    /\ \E n \in 1..Len(as) :
         HasAt(t, i, as[n]) /\ WordBoundary(t, i + Len(as[n]))

\* re.search(r'(a1|a2|...)\s+(.+)', t): one blank and one more character follow
SearchPhraseThenRest(t, as) ==
  \E i \in 1..Len(t) :
    \E n \in 1..Len(as) :
      /\ HasAt(t, i, as[n])
      /\ i + Len(as[n]) + 1 <= Len(t)
      /\ IsSpace(t[i + Len(as[n])])

\* any(p in t for p in ps)
ContainsAny(t, ps) == \E n \in 1..Len(ps) : Contains(t, ps[n])

(***************************************************************************)
(* UtteranceClassifier: is_question, detect_decision, detect_action_item.  *)
(***************************************************************************)
\* is_question: starters (used for membership only)
starters ==
  {
    <<"w","h","a","t">>,
    <<"w","h","e","r","e">>,
    <<"w","h","e","n">>,
    <<"w","h","y">>,
    <<"w","h","o">>,
    <<"h","o","w">>,
    <<"i","s">>,
    <<"a","r","e">>,
    <<"c","a","n">>,
    <<"c","o","u","l","d">>,
    <<"w","o","u","l","d">>,
    <<"s","h","o","u","l","d">>,
    <<"w","i","l","l">>,
    <<"d","o">>,
    <<"d","o","e","s">>,
    <<"d","i","d">>,
    <<"h","a","v","e">>,
    <<"h","a","s">>,
    <<"a","m">>,
    <<"w","a","s">>,
    <<"w","e","r","e">>
  }

\* is_question: patterns[0], the first group
pattern_wh ==
  <<
    <<"w","h","a","t">>,
    <<"w","h","e","r","e">>,
    <<"w","h","e","n">>,
    <<"w","h","y">>,
    <<"h","o","w">>,
    <<"w","h","o">>
  >>

\* is_question: patterns[0], the second group
pattern_aux ==
  <<
    <<"i","s">>,
    <<"a","r","e">>,
    <<"w","a","s">>,
    <<"w","e","r","e">>,
    <<"d","o">>,
    <<"d","o","e","s">>,
    <<"d","i","d">>,
    <<"c","a","n">>,
    <<"c","o","u","l","d">>,
    <<"w","o","u","l","d">>
  >>

\* is_question: patterns[1]
pattern_you ==
  <<
    <<"c","a","n"," ","y","o","u">>,
    <<"c","o","u","l","d"," ","y","o","u">>,
    <<"w","o","u","l","d"," ","y","o","u">>,
    <<"w","i","l","l"," ","y","o","u">>
  >>

\* is_question: patterns[2]
pattern_wonder ==
  <<
    <<"l","e","t"," ","m","e"," ","k","n","o","w">>,
    <<"t","e","l","l"," ","m","e">>,
    <<"i","'","m"," ","w","o","n","d","e","r","i","n","g">>,
    <<"i"," ","w","a","s"," ","w","o","n","d","e","r","i","n","g">>
  >>

\* is_question: patterns[3]
pattern_know ==
  <<
    <<"a","n","y"," ","i","d","e","a">>,
    <<"d","o"," ","y","o","u"," ","k","n","o","w">>,
    <<"h","a","v","e"," ","y","o","u"," ","h","e","a","r","d">>
  >>

is_question(text0) ==
  LET text == strip(text0)
      text_lower == lower(text)
  IN IF endswith(text, <<"?">>) THEN TRUE
     ELSE IF Len(text_lower) > 0
             /\ FirstWord(text_lower) \in starters
          THEN TRUE
     ELSE \/ SearchWordSpaceWord(text_lower, pattern_wh, pattern_aux)
          \/ SearchPhraseThenWord(text_lower, pattern_you)
          \/ SearchWholePhrase(text_lower, pattern_wonder)
          \/ SearchWholePhrase(text_lower, pattern_know)

\* detect_decision: indicators
indicators ==
  <<
    <<"d","e","c","i","d","e","d">>,
    <<"d","e","c","i","s","i","o","n">>,
    <<"a","g","r","e","e","d">>,
    <<"c","o","n","c","l","u","s","i","o","n">>,
    <<"f","i","n","a","l","i","z","e","d">>,
    <<"r","e","s","o","l","v","e","d">>,
    <<"a","p","p","r","o","v","e","d">>,
    <<"c","o","n","f","i","r","m","e","d">>,
    <<"c","o","n","s","e","n","s","u","s">>,
    <<"s","e","t","t","l","e","d"," ","o","n">>,
    <<"m","o","v","i","n","g"," ","f","o","r","w","a","r","d"," ","w","i","t","h">>,
    <<"w","e"," ","w","i","l","l">>,
    <<"l","e","t","'","s"," ","g","o"," ","w","i","t","h">>,
    <<"a","p","p","r","o","v","e","d">>
  >>

detect_decision(text) == ContainsAny(lower(text), indicators)

\* detect_action_item: assign_patterns[0]
assign_first_person ==
  <<
    <<"i"," ","w","i","l","l">>,
    <<"i","'","l","l">>,
    <<"i"," ","a","m"," ","g","o","i","n","g"," ","t","o">>,
    <<"i","'","m"," ","g","o","i","n","g"," ","t","o">>
  >>

\* detect_action_item: assign_patterns[1]
assign_offer ==
  <<
    <<"l","e","t"," ","m","e">>,
    <<"i"," ","c","a","n">>,
    <<"i"," ","s","h","o","u","l","d">>
  >>

\* detect_action_item: assign_patterns[2]
assign_request ==
  <<
    <<"w","i","l","l"," ","y","o","u">>,
    <<"c","a","n"," ","y","o","u">>,
    <<"c","o","u","l","d"," ","y","o","u">>
  >>

\* detect_action_item: assign_patterns[3]
assign_literal ==
  <<
    <<"a","c","t","i","o","n"," ","i","t","e","m">>,
    <<"t","o","d","o">>,
    <<"t","a","s","k">>,
    <<"f","o","l","l","o","w"," ","u","p">>,
    <<"f","o","l","l","o","w","-","u","p">>
  >>

\* detect_action_item: deadline_words
deadline_words ==
  <<
    <<"b","y"," ","t","o","m","o","r","r","o","w">>,
    <<"b","y"," ","f","r","i","d","a","y">>,
    <<"b","y"," ","m","o","n","d","a","y">>,
    <<"b","y"," ","n","e","x","t">>,
    <<"b","y"," ","t","h","e"," ","e","n","d"," ","o","f">>,
    <<"a","s","a","p">>,
    <<"s","o","o","n">>,
    <<"t","h","i","s"," ","w","e","e","k">>,
    <<"n","e","x","t"," ","w","e","e","k">>
  >>

detect_action_item(text) ==
  LET text_lower == lower(text)
  IN \/ SearchPhraseThenRest(text_lower, assign_first_person)
     \/ SearchPhraseThenRest(text_lower, assign_offer)
     \/ SearchPhraseThenRest(text_lower, assign_request)
     \/ ContainsAny(text_lower, assign_literal)
     \/ ContainsAny(text_lower, deadline_words)

\* add_utterance: answer_starters
answer_starters ==
  <<
    <<"y","e","s">>,
    <<"n","o">>,
    <<"a","b","s","o","l","u","t","e","l","y">>,
    <<"d","e","f","i","n","i","t","e","l","y">>,
    <<"c","o","r","r","e","c","t">>,
    <<"r","i","g","h","t">>,
    <<"e","x","a","c","t","l","y">>,
    <<"s","u","r","e">>,
    <<"w","e","l","l">>,
    <<"i"," ","t","h","i","n","k">>,
    <<"i","n"," ","m","y"," ","o","p","i","n","i","o","n">>
  >>

starts_like_answer(text) ==
  LET text_lower == lower(text)
  IN \E n \in 1..Len(answer_starters) : startswith(text_lower, answer_starters[n])

(***************************************************************************)
(* The texts of the requests.                                              *)
(***************************************************************************)
\* "any news?": a question by its question mark
text_question == <<"a","n","y"," ","n","e","w","s","?">>
\* "ok": a short statement
text_plain == <<"o","k">>
\* "Yes": an answer starter
text_yes == <<"Y","e","s">>
\* "done.": a short sentence with a full stop
text_period == <<"d","o","n","e",".">>
\* "we agreed": a decision
text_decision == <<"w","e"," ","a","g","r","e","e","d">>
\* "i will call": an action item
text_action == <<"i"," ","w","i","l","l"," ","c","a","l","l">>
\* "yes?": an answer starter with a question mark
text_yes_question == <<"y","e","s","?">>
\* "is it ok": a question by its first word
text_starter_question == <<"i","s"," ","i","t"," ","o","k">>
\* "  ": nothing after trimming
text_blank == <<" "," ">>
\* "so zzz...": a statement of 100 characters and one of 101
text_long100 == <<"s","o"," ">> \o Repeat("z", 97)
text_long101 == <<"s","o"," ">> \o Repeat("z", 98)

\* every text a request of the model carries
Texts ==
  { text_question, text_plain, text_yes, text_period, text_decision, text_action,
    text_yes_question, text_starter_question, text_blank, text_long100, text_long101 }

\* the texts as add_utterance is given them, and their predicates looked up:
\* a text of the requests is classified once, any other text when it is met
KnownTexts == {strip(t) : t \in Texts}
KnownClass ==
  [t \in KnownTexts |->
     [ question |-> is_question(t),
       decision |-> detect_decision(t),
       action_item |-> detect_action_item(t),
       answer_start |-> starts_like_answer(t) ]]
IsQuestion(text) ==
  IF text \in KnownTexts THEN KnownClass[text].question ELSE is_question(text)
IsDecision(text) ==
  IF text \in KnownTexts THEN KnownClass[text].decision ELSE detect_decision(text)
IsActionItem(text) ==
  IF text \in KnownTexts THEN KnownClass[text].action_item ELSE detect_action_item(text)
StartsLikeAnswer(text) ==
  IF text \in KnownTexts THEN KnownClass[text].answer_start ELSE starts_like_answer(text)

(***************************************************************************)
(* Bounds of the model and the inputs the operations are called with.      *)
(***************************************************************************)
\* longest transcript under Spec, where every kind of text is said
MaxLen == 3
\* longest transcript under SpecThread, where a question stays pending long
MaxLenThread == 6
\* longest transcript under SpecQuestion, where questions are asked in every way
MaxLenQuestion == 3
MaxLenSpeaker == 3
MaxLenConcurrent == 3
MaxLenStatus == 2

\* One running-average unit is 1/Unit. A profile is smoothed at most once per
\* entry after its first, so 10^6 keeps 0.3*sample + 0.7*old exact for the
\* transcripts of up to seven entries the bounds allow.
Unit == 10^6

\* the registry keys uuid.uuid4() can return, and a key it never returned
MeetingIds == {"m1"}
UnknownId == "m0"

\* dict.get(key, default) and dict.get(key)
GetOr(d, key, default) == IF key \in DOMAIN d THEN d[key] ELSE default
Get(d, key) == GetOr(d, key, None)
\* the truth value of dict.get(key) for a key that is only ever set to True
Flag(d, key) == key \in DOMAIN d /\ d[key]

\* list[i] for a Python index i (from 0)
At(list, i) == list[i + 1]

(***************************************************************************)
(* MeetingStore                                                            *)
(***************************************************************************)
VARIABLES
  meetings,   \* the registry `meetings`: meeting id -> MeetingStore
  now,        \* the reading of datetime.now()
  response,   \* what the last request that returned has returned
  calls       \* the receive_audio calls in progress: worker thread -> its frame

vars == <<meetings, now, response, calls>>

\* MeetingStore.__init__
NewMeetingStore(meeting_type, clock) ==
  [ meeting_type |-> meeting_type,
    participants |-> <<>>,
    speaker_counter |-> 0,
    transcript |-> <<>>,
    unanswered_questions |-> <<>>,
    start_time |-> None,
    end_time |-> None,
    meeting_title |-> <<"Meeting - ", clock>>,
    audio_sources |-> {} ]

\* abs()
abs(x) == IF x < 0 THEN -x ELSE x

\* The score of line 44 times 500, as hi + lo/Unit with 0 <= lo < Unit:
\* 500 * (0.5*p + 0.3*(q/10) + 0.2*(e/50)) = 250*p + 15*q + 2*e.
\* The averages of pitch and pace are in units of 1/Unit, energy is as sampled.
speaker_score(data, voice_features) ==
  LET pitch_diff == abs(data.avg_pitch - GetOr(voice_features, "avg_pitch", 0) * Unit)
      pace_diff == abs(data.avg_pace - GetOr(voice_features, "words_per_minute", 0) * Unit)
      energy_diff == abs(data.avg_energy - GetOr(voice_features, "energy", 0))
      frac == 250 * (pitch_diff % Unit) + 15 * (pace_diff % Unit)
  IN [ hi |-> 250 * (pitch_diff \div Unit) + 15 * (pace_diff \div Unit)
              + 2 * energy_diff + (frac \div Unit),
       lo |-> frac % Unit ]

\* score < threshold, for the threshold of line 46
BelowThreshold(score, meeting_type) ==
  score.hi < 500 * (IF meeting_type = "hybrid" THEN 25 ELSE 20)

\* float('inf'), the first best_score: a score with no finite value
inf == [hi |-> None, lo |-> 0]

\* score < best_score; best_score starts as float('inf')
BelowBest(score, best_score) ==
  \/ best_score.hi = None
  \/ score.hi < best_score.hi
  \/ score.hi = best_score.hi /\ score.lo < best_score.lo

\* Variant of best_match_from that keeps the first profile below the threshold
\* instead of the closest one, which C11 excludes
RECURSIVE best_match_from_first(_, _, _, _, _)
best_match_from_first(self, voice_features, k, best_match, best_score) ==
  IF k > Len(self.participants) THEN best_match
  ELSE LET score == speaker_score(self.participants[k], voice_features)
       IN IF BelowThreshold(score, self.meeting_type) /\ best_match = None
          THEN best_match_from_first(self, voice_features, k + 1, k, score)
          ELSE best_match_from_first(self, voice_features, k + 1, best_match, best_score)

\* The loop of lines 39-49 from the k-th profile on, in insertion order (a
\* speaker id is the value of speaker_counter at its creation).
RECURSIVE best_match_from(_, _, _, _, _)
best_match_from(self, voice_features, k, best_match, best_score) ==
  IF k > Len(self.participants) THEN best_match
  ELSE LET score == speaker_score(self.participants[k], voice_features)
       IN IF BelowThreshold(score, self.meeting_type) /\ BelowBest(score, best_score)
          THEN best_match_from(self, voice_features, k + 1, k, score)
          ELSE best_match_from(self, voice_features, k + 1, best_match, best_score)

\* alpha * sample + (1 - alpha) * old with alpha = 0.3, old in units of 1/Unit
smooth(sample, old) == (3 * sample * Unit + 7 * old) \div 10

\* audio_source in ['tab_audio', 'system_audio', 'screen_share']
IsRemoteSource(audio_source) ==
  audio_source \in {"tab_audio", "system_audio", "screen_share"}

\* Variant of get_or_create_speaker in which a match also moves the profile to
\* the audio source of the utterance, which C20 excludes
get_or_create_speaker_resourced(self, voice_features, audio_source, clock) ==
  LET best_match == best_match_from(self, voice_features, 1, None, inf)
  IN IF best_match # None
     THEN LET old_count == Cardinality({i \in 1..Len(self.transcript) :
                                          self.transcript[i].speaker_id = best_match})
              speaker_data == self.participants[best_match]
              updated == [speaker_data EXCEPT
                            !.avg_pitch = smooth(GetOr(voice_features, "avg_pitch", 100), @),
                            !.avg_pace = smooth(GetOr(voice_features, "words_per_minute", 120), @),
                            !.samples_count = old_count + 1,
                            !.audio_source = audio_source,
                            !.is_remote = IsRemoteSource(audio_source)]
          IN [ self |-> [self EXCEPT !.participants[best_match] = updated],
               speaker_id |-> best_match ]
     ELSE LET counter == self.speaker_counter + 1
              is_remote == IsRemoteSource(audio_source)
              profile ==
                [ name |-> [ prefix |-> "Participant ", number |-> counter,
                             suffix |-> IF is_remote THEN " (Remote)" ELSE "" ],
                  avg_pitch |-> GetOr(voice_features, "avg_pitch", 100) * Unit,
                  avg_pace |-> GetOr(voice_features, "words_per_minute", 120) * Unit,
                  avg_energy |-> GetOr(voice_features, "energy", 5000),
                  voice_id |-> counter,
                  audio_source |-> audio_source,
                  is_remote |-> is_remote,
                  samples_count |-> 1,
                  first_seen |-> clock ]
          IN [ self |-> [self EXCEPT !.speaker_counter = counter,
                                     !.participants = Append(@, profile)],
               speaker_id |-> counter ]

\* Variant of get_or_create_speaker whose match leaves out the utterance being
\* attributed from the sample counter, which C23 excludes
get_or_create_speaker_stale_count(self, voice_features, audio_source, clock) ==
  LET best_match == best_match_from(self, voice_features, 1, None, inf)
  IN IF best_match # None
     THEN LET old_count == Cardinality({i \in 1..Len(self.transcript) :
                                          self.transcript[i].speaker_id = best_match})
              speaker_data == self.participants[best_match]
              updated == [speaker_data EXCEPT
                            !.avg_pitch = smooth(GetOr(voice_features, "avg_pitch", 100), @),
                            !.avg_pace = smooth(GetOr(voice_features, "words_per_minute", 120), @),
                            !.samples_count = old_count]
          IN [ self |-> [self EXCEPT !.participants[best_match] = updated],
               speaker_id |-> best_match ]
     ELSE LET counter == self.speaker_counter + 1
              speaker_id == counter
              is_remote == IsRemoteSource(audio_source)
              profile ==
                [ name |-> [ prefix |-> "Participant ", number |-> counter,
                             suffix |-> IF is_remote THEN " (Remote)" ELSE "" ],
                  avg_pitch |-> GetOr(voice_features, "avg_pitch", 100) * Unit,
                  avg_pace |-> GetOr(voice_features, "words_per_minute", 120) * Unit,
                  avg_energy |-> GetOr(voice_features, "energy", 5000),
                  voice_id |-> speaker_id,
                  audio_source |-> audio_source,
                  is_remote |-> is_remote,
                  samples_count |-> 1,
                  first_seen |-> clock ]
          IN [ self |-> [self EXCEPT !.speaker_counter = counter,
                                     !.participants = Append(@, profile)],
               speaker_id |-> speaker_id ]

\* MeetingStore.get_or_create_speaker: the store after the call and the id returned
get_or_create_speaker(self, voice_features, audio_source, clock) ==
  LET best_match == best_match_from(self, voice_features, 1, None, inf)
  IN IF best_match # None
     THEN LET old_count == Cardinality({i \in 1..Len(self.transcript) :
                                          self.transcript[i].speaker_id = best_match})
              speaker_data == self.participants[best_match]
              updated == [speaker_data EXCEPT
                            !.avg_pitch = smooth(GetOr(voice_features, "avg_pitch", 100), @),
                            !.avg_pace = smooth(GetOr(voice_features, "words_per_minute", 120), @),
                            !.samples_count = old_count + 1]
          IN [ self |-> [self EXCEPT !.participants[best_match] = updated],
               speaker_id |-> best_match ]
     ELSE LET counter == self.speaker_counter + 1
              speaker_id == counter
              is_remote == IsRemoteSource(audio_source)
              profile ==
                [ name |-> [ prefix |-> "Participant ", number |-> counter,
                             suffix |-> IF is_remote THEN " (Remote)" ELSE "" ],
                  avg_pitch |-> GetOr(voice_features, "avg_pitch", 100) * Unit,
                  avg_pace |-> GetOr(voice_features, "words_per_minute", 120) * Unit,
                  avg_energy |-> GetOr(voice_features, "energy", 5000),
                  voice_id |-> speaker_id,
                  audio_source |-> audio_source,
                  is_remote |-> is_remote,
                  samples_count |-> 1,
                  first_seen |-> clock ]
          IN [ self |-> [self EXCEPT !.speaker_counter = counter,
                                     !.participants = Append(@, profile)],
               speaker_id |-> speaker_id ]

\* Variant of next_index that counts entries from one: the off-by-one that C1 excludes
next_index_from_one(transcript) == Len(transcript) + 1

\* len(self.transcript), the index add_utterance gives the entry it is building
next_index(transcript) == Len(transcript)

\* Variant of is_answer with the window one entry wider, which C3 excludes
is_answer_within_five(time_since_q, last_q, speaker_id, text) ==
  \/ /\ time_since_q <= 5
     /\ last_q.speaker # speaker_id
     /\ ~endswith(text, <<"?">>)
  \/ StartsLikeAnswer(text)

\* Variant of is_answer whose starter rule still asks for another speaker, which
\* C5 excludes
is_answer_starter_by_other(time_since_q, last_q, speaker_id, text) ==
  /\ last_q.speaker # speaker_id
  /\ \/ time_since_q <= 4 /\ ~endswith(text, <<"?">>)
     \/ StartsLikeAnswer(text)

\* is_answer of lines 172-181 for the pending question last_q
is_answer(time_since_q, last_q, speaker_id, text) ==
  \/ /\ time_since_q <= 4
     /\ last_q.speaker # speaker_id
     /\ ~endswith(text, <<"?">>)
  \/ StartsLikeAnswer(text)

\* Variant of answer_closes that pops on the first answer, which C4 excludes
answer_closes_at_once(time_since_q, text) ==
  time_since_q >= 1 \/ endswith(text, <<".">>) \/ Len(text) > 100

\* Variant of answer_closes without the distance rule, which C22 excludes
answer_closes_by_text_only(time_since_q, text) ==
  endswith(text, <<".">>) \/ Len(text) > 100

\* the condition of line 187 under which the answered question is popped
answer_closes(time_since_q, text) ==
  time_since_q >= 2 \/ endswith(text, <<".">>) \/ Len(text) > 100

\* Variant of thread_entry that tries the answer rules before the question rule,
\* which C6 excludes
thread_entry_answer_first(entry, text, speaker_id, transcript, unanswered_questions, clock) ==
  LET as_question ==
        [ entry |-> [entry EXCEPT !.type = "question"]
                      @@ ("question_id" :> Len(transcript)),
          unanswered_questions |->
            Append(unanswered_questions,
                   [ index |-> Len(transcript), timestamp |-> clock,
                     speaker |-> speaker_id ]) ]
  IN IF unanswered_questions # <<>>
     THEN LET last_q == unanswered_questions[Len(unanswered_questions)]
              time_since_q == Len(transcript) - last_q.index
          IN IF \/ /\ time_since_q <= 4
                    /\ last_q.speaker # speaker_id
                    /\ ~endswith(text, <<"?">>)
                \/ StartsLikeAnswer(text)
             THEN [ entry |-> [entry EXCEPT !.type = "answer"]
                                @@ ("answers_question" :> last_q.index),
                    unanswered_questions |->
                      IF time_since_q >= 2 \/ endswith(text, <<".">>) \/ Len(text) > 100
                      THEN SubSeq(unanswered_questions, 1, Len(unanswered_questions) - 1)
                      ELSE unanswered_questions ]
             ELSE IF IsQuestion(text) THEN as_question
             ELSE [ entry |-> entry, unanswered_questions |-> unanswered_questions ]
     ELSE IF IsQuestion(text) THEN as_question
     ELSE [ entry |-> entry, unanswered_questions |-> unanswered_questions ]

\* Variant of thread_entry that records the link to the pending question on
\* every entry heard while one is pending, answer or not, which C21 excludes
thread_entry_links_unanswered(entry, text, speaker_id, transcript, unanswered_questions, clock) ==
  IF IsQuestion(text)
  THEN [ entry |-> [entry EXCEPT !.type = "question"]
                     @@ ("question_id" :> next_index(transcript)),
         unanswered_questions |->
           Append(unanswered_questions,
                  [ index |-> next_index(transcript), timestamp |-> clock,
                    speaker |-> speaker_id ]) ]
  ELSE IF unanswered_questions # <<>>
  THEN LET last_q == unanswered_questions[Len(unanswered_questions)]
           time_since_q == next_index(transcript) - last_q.index
           linked == entry @@ ("answers_question" :> last_q.index)
       IN IF is_answer(time_since_q, last_q, speaker_id, text)
          THEN [ entry |-> [linked EXCEPT !.type = "answer"],
                 unanswered_questions |->
                   IF answer_closes(time_since_q, text)
                   THEN SubSeq(unanswered_questions, 1, Len(unanswered_questions) - 1)
                   ELSE unanswered_questions ]
          ELSE [ entry |-> linked, unanswered_questions |-> unanswered_questions ]
  ELSE [ entry |-> entry, unanswered_questions |-> unanswered_questions ]

\* add_utterance, lines 159-188: the type, the links and the pending stack.
\* The result is the entry with its type set and the stack after the step.
thread_entry(entry, text, speaker_id, transcript, unanswered_questions, clock) ==
  IF IsQuestion(text)
  THEN [ entry |-> [entry EXCEPT !.type = "question"]
                     @@ ("question_id" :> next_index(transcript)),
         unanswered_questions |->
           Append(unanswered_questions,
                  [ index |-> next_index(transcript), timestamp |-> clock,
                    speaker |-> speaker_id ]) ]
  ELSE IF unanswered_questions # <<>>
  THEN LET last_q == unanswered_questions[Len(unanswered_questions)]
           time_since_q == next_index(transcript) - last_q.index
       IN IF is_answer(time_since_q, last_q, speaker_id, text)
          THEN [ entry |-> [entry EXCEPT !.type = "answer"]
                             @@ ("answers_question" :> last_q.index),
                 unanswered_questions |->
                   IF answer_closes(time_since_q, text)
                   THEN SubSeq(unanswered_questions, 1, Len(unanswered_questions) - 1)
                   ELSE unanswered_questions ]
          ELSE [ entry |-> entry, unanswered_questions |-> unanswered_questions ]
  ELSE [ entry |-> entry, unanswered_questions |-> unanswered_questions ]

\* add_utterance, lines 190-195: the decision and action-item flags
flag_entry(entry, text, speaker_data) ==
  LET decided == IF IsDecision(text)
                 THEN entry @@ ("is_decision" :> TRUE) ELSE entry
  IN IF IsActionItem(text)
     THEN decided @@ ("is_action_item" :> TRUE) @@ ("assignee" :> speaker_data.name)
     ELSE decided

\* add_utterance, lines 142-157: the entry as first built
new_entry(speaker_id, speaker_data, text, voice_features, audio_source, clock) ==
  [ timestamp |-> clock,
    speaker_id |-> speaker_id,
    speaker_name |-> speaker_data.name,
    text |-> text,
    type |-> "statement",
    audio_source |-> audio_source,
    is_remote |-> speaker_data.is_remote,
    voice_features |->
      [ pitch |-> Get(voice_features, "avg_pitch"),
        pace |-> Get(voice_features, "words_per_minute"),
        energy |-> Get(voice_features, "energy") ] ]

\* add_utterance, lines 159-195, on the entry first built: the store with the
\* pending stack updated, and the entry with its type, links and flags
classify_entry(self, entry0, text, clock) ==
  LET threaded == thread_entry(entry0, text, entry0.speaker_id, self.transcript,
                               self.unanswered_questions, clock)
  IN [ self |-> [self EXCEPT !.unanswered_questions = threaded.unanswered_questions],
       entry |-> flag_entry(threaded.entry, text, self.participants[entry0.speaker_id]) ]

\* add_utterance, lines 197-198
append_entry(self, entry, audio_source) ==
  [self EXCEPT !.transcript = Append(@, entry),
               !.audio_sources = @ \cup {audio_source}]

\* MeetingStore.add_utterance: the store after the call and the entry returned
add_utterance(self, text, voice_features, audio_source, clock) ==
  LET resolved == get_or_create_speaker(self, voice_features, audio_source, clock)
      speaker_data == resolved.self.participants[resolved.speaker_id]
      entry0 == new_entry(resolved.speaker_id, speaker_data, text, voice_features,
                          audio_source, clock)
      classified == classify_entry(resolved.self, entry0, text, clock)
  IN [ self |-> append_entry(classified.self, classified.entry, audio_source),
       entry |-> classified.entry ]

(***************************************************************************)
(* MinutesSynthesizer.  An entry in a list of the minutes is a reference   *)
(* to the entry object of the transcript: the model holds its index.       *)
(***************************************************************************)
\* the clock readings are in milliseconds
TicksPerSecond == 1000

\* Variant of calculate_duration that takes the minutes of the whole duration,
\* not of what the hours leave, which C15 excludes
calculate_duration_whole_minutes(self) ==
  IF self.end_time = None \/ self.start_time = None THEN <<"In progress">>
  ELSE LET total_seconds == (self.end_time - self.start_time) \div TicksPerSecond
           hours == total_seconds \div 3600
           minutes == total_seconds \div 60
           seconds == total_seconds % 60
       IN IF hours > 0 THEN <<hours, "h ", minutes, "m ", seconds, "s">>
          ELSE IF minutes > 0 THEN <<minutes, "m ", seconds, "s">>
          ELSE <<seconds, "s">>

\* calculate_duration; int() drops the fraction of a second of the difference.
\* A duration is the sequence of the numbers and words of its text.
calculate_duration(self) ==
  IF self.end_time = None \/ self.start_time = None THEN <<"In progress">>
  ELSE LET total_seconds == (self.end_time - self.start_time) \div TicksPerSecond
           hours == total_seconds \div 3600
           minutes == (total_seconds % 3600) \div 60
           seconds == total_seconds % 60
       IN IF hours > 0 THEN <<hours, "h ", minutes, "m ", seconds, "s">>
          ELSE IF minutes > 0 THEN <<minutes, "m ", seconds, "s">>
          ELSE <<seconds, "s">>

\* get_minutes_structure, lines 217-226: the participants with the given flag
participant_list(self, is_remote) ==
  LET info(pid) ==
        [ name |-> self.participants[pid].name,
          source |-> self.participants[pid].audio_source,
          speaking_time |-> Cardinality({i \in 1..Len(self.transcript) :
                                           self.transcript[i].speaker_id = pid}) ]
      pids == SelectSeq([k \in 1..Len(self.participants) |-> k],
                        LAMBDA pid : self.participants[pid].is_remote = is_remote)
  IN [n \in 1..Len(pids) |-> info(pids[n])]

\* Variant of scan_forward that takes a trailing question as follow-up only
\* when it is the final entry, the comparison of line 245 inverted, which C16
\* excludes
RECURSIVE scan_forward_final_only(_, _, _, _)
scan_forward_final_only(transcript, i, j, qa) ==
  IF ~(j < Len(transcript)) THEN qa
  ELSE LET next_entry == At(transcript, j)
       IN IF Get(next_entry, "answers_question") = i
          THEN scan_forward_final_only(transcript, i, j + 1,
                                       [qa EXCEPT !.answers = Append(@, j)])
          ELSE IF next_entry.type = "question" /\ j >= Len(transcript) - 1
          THEN IF next_entry.speaker_id = At(transcript, i).speaker_id
               THEN [qa EXCEPT !.follow_up_questions = Append(@, j)]
               ELSE qa
          ELSE qa

\* Variant of scan_forward that takes a trailing question as follow-up whoever
\* asks it, which C17 excludes
RECURSIVE scan_forward_any_speaker(_, _, _, _)
scan_forward_any_speaker(transcript, i, j, qa) ==
  IF ~(j < Len(transcript)) THEN qa
  ELSE LET next_entry == At(transcript, j)
       IN IF Get(next_entry, "answers_question") = i
          THEN scan_forward_any_speaker(transcript, i, j + 1,
                                        [qa EXCEPT !.answers = Append(@, j)])
          ELSE IF next_entry.type = "question" /\ j < Len(transcript) - 1
          THEN [qa EXCEPT !.follow_up_questions = Append(@, j)]
          ELSE qa

\* The while loop of lines 238-251 for the question at i, from index j on
RECURSIVE scan_forward(_, _, _, _)
scan_forward(transcript, i, j, qa) ==
  IF ~(j < Len(transcript)) THEN qa
  ELSE LET next_entry == At(transcript, j)
       IN IF Get(next_entry, "answers_question") = i
          THEN scan_forward(transcript, i, j + 1, [qa EXCEPT !.answers = Append(@, j)])
          ELSE IF next_entry.type = "question" /\ j < Len(transcript) - 1
          THEN IF next_entry.speaker_id = At(transcript, i).speaker_id
               THEN [qa EXCEPT !.follow_up_questions = Append(@, j)]
               ELSE qa
          ELSE qa

\* The loop of lines 229-253 from index i on: the Q&A groups in transcript order
RECURSIVE qa_pairs_from(_, _)
qa_pairs_from(transcript, i) ==
  IF ~(i < Len(transcript)) THEN <<>>
  ELSE IF At(transcript, i).type = "question"
  THEN <<scan_forward(transcript, i, i + 1,
                      [question |-> i, answers |-> <<>>, follow_up_questions |-> <<>>])>>
       \o qa_pairs_from(transcript, i + 1)
  ELSE qa_pairs_from(transcript, i + 1)

\* the indices one Q&A group adds to used_indices
GroupIndices(qa) ==
  {qa.question} \cup Range(qa.answers) \cup Range(qa.follow_up_questions)

\* used_indices after the loop of lines 229-253
used_indices_of(qa_pairs) == UNION {GroupIndices(qa_pairs[n]) : n \in 1..Len(qa_pairs)}

\* Variant of bucket_of that does not skip the indices the Q&A groups used,
\* which C7 excludes
bucket_of_unmarked(transcript, used_indices, i) ==
  IF Flag(At(transcript, i), "is_decision") THEN "decisions"
  ELSE IF Flag(At(transcript, i), "is_action_item") THEN "action_items"
  ELSE IF At(transcript, i).type = "statement" /\ Len(At(transcript, i).text) > 50
  THEN "key_discussion_points"
  ELSE "none"

\* The loop of lines 255-264: the list ("decisions", "action_items" or
\* "key_discussion_points") the entry at index i is appended to, or "none"
bucket_of(transcript, used_indices, i) ==
  IF i \in used_indices THEN "none"
  ELSE IF Flag(At(transcript, i), "is_decision") THEN "decisions"
  ELSE IF Flag(At(transcript, i), "is_action_item") THEN "action_items"
  ELSE IF At(transcript, i).type = "statement" /\ Len(At(transcript, i).text) > 50
  THEN "key_discussion_points"
  ELSE "none"

\* the list the loop of lines 255-264 builds under the given name: the indices
\* of its entries, in transcript order
bucket(transcript, used_indices, name) ==
  SelectSeq([k \in 1..Len(transcript) |-> k - 1],
            LAMBDA i : bucket_of(transcript, used_indices, i) = name)

\* MeetingStore.get_minutes_structure
get_minutes_structure(self, clock) ==
  LET transcript == self.transcript
      qa_pairs == qa_pairs_from(transcript, 0)
      used_indices == used_indices_of(qa_pairs)
  IN [ title |-> self.meeting_title,
       date |-> IF self.start_time # None THEN self.start_time ELSE clock,
       meeting_type |-> self.meeting_type,
       duration |-> calculate_duration(self),
       participants |-> participant_list(self, FALSE),
       remote_participants |-> participant_list(self, TRUE),
       qa_pairs |-> qa_pairs,
       key_discussion_points |-> bucket(transcript, used_indices, "key_discussion_points"),
       decisions |-> bucket(transcript, used_indices, "decisions"),
       action_items |-> bucket(transcript, used_indices, "action_items"),
       audio_sources |-> self.audio_sources ]

(***************************************************************************)
(* The routes.                                                             *)
(***************************************************************************)
\* get_setup_message
get_setup_message(meeting_type) ==
  CASE meeting_type = "physical" -> "Place your device centrally in the room."
    [] meeting_type = "online" -> "Share your meeting tab/window when prompted."
    [] meeting_type = "hybrid" -> "Dual-mode active."
    [] OTHER -> "Meeting started."

NoResponse == [route |-> "none", code |-> 0]

\* the worker threads of the server, and the frame of one that serves no call
Threads == {"t1", "t2"}
Idle == [pc |-> "idle"]

NotFound(route) == [route |-> route, code |-> 404, error |-> "Meeting not found"]

\* POST /api/meeting/start; uuid.uuid4() returns a key not in the registry
start_meeting(data) ==
  \E meeting_id \in MeetingIds \ DOMAIN meetings :
    LET meeting_type == GetOr(data, "meeting_type", "physical")
        store == [NewMeetingStore(meeting_type, now) EXCEPT !.start_time = now]
    IN /\ meetings' = meeting_id :> store @@ meetings
       /\ response' = [ route |-> "start", code |-> 200,
                        meeting_id |-> meeting_id,
                        meeting_type |-> meeting_type,
                        status |-> "started",
                        timestamp |-> store.start_time,
                        message |-> get_setup_message(meeting_type) ]
       /\ UNCHANGED <<now, calls>>

\* the default of data.get('voice_features', ...) in receive_audio
DefaultVoiceFeatures == [avg_pitch |-> 100, words_per_minute |-> 120, energy |-> 5000]

\* Variant of receive_audio that tests the text for emptiness without trimming
\* it, which C13 excludes
receive_audio_untrimmed(meeting_id, data) ==
  IF meeting_id \notin DOMAIN meetings
  THEN response' = NotFound("audio") /\ UNCHANGED <<meetings, now, calls>>
  ELSE IF DOMAIN data = {}
  THEN /\ response' = [route |-> "audio", code |-> 400, error |-> "No data provided"]
       /\ UNCHANGED <<meetings, now, calls>>
  ELSE LET text == GetOr(data, "text", <<>>)
           voice_features == GetOr(data, "voice_features", DefaultVoiceFeatures)
           audio_source == GetOr(data, "audio_source", "microphone")
           channel == GetOr(data, "channel", "mono")
       IN IF text = <<>>
          THEN /\ response' = [route |-> "audio", code |-> 400, error |-> "No text provided"]
               /\ UNCHANGED <<meetings, now, calls>>
          ELSE \E added \in {add_utterance(meetings[meeting_id], text,
                                          ("channel" :> channel) @@ voice_features,
                                          audio_source, now)} :
                  /\ meetings' = [meetings EXCEPT ![meeting_id] = added.self]
                  /\ response' = [ route |-> "audio", code |-> 200,
                                   entry |-> added.entry,
                                   speaker_count |-> Len(added.self.participants),
                                   audio_sources |-> added.self.audio_sources ]
                  /\ UNCHANGED <<now, calls>>

\* POST /api/meeting/<meeting_id>/audio
receive_audio(meeting_id, data) ==
  IF meeting_id \notin DOMAIN meetings
  THEN response' = NotFound("audio") /\ UNCHANGED <<meetings, now, calls>>
  ELSE IF DOMAIN data = {}
  THEN /\ response' = [route |-> "audio", code |-> 400, error |-> "No data provided"]
       /\ UNCHANGED <<meetings, now, calls>>
  ELSE LET text == strip(GetOr(data, "text", <<>>))
           voice_features == GetOr(data, "voice_features", DefaultVoiceFeatures)
           audio_source == GetOr(data, "audio_source", "microphone")
           channel == GetOr(data, "channel", "mono")
       IN IF text = <<>>
          THEN /\ response' = [route |-> "audio", code |-> 400, error |-> "No text provided"]
               /\ UNCHANGED <<meetings, now, calls>>
          ELSE \E added \in {add_utterance(meetings[meeting_id], text,
                                          ("channel" :> channel) @@ voice_features,
                                          audio_source, now)} :
                  /\ meetings' = [meetings EXCEPT ![meeting_id] = added.self]
                  /\ response' = [ route |-> "audio", code |-> 200,
                                   entry |-> added.entry,
                                   speaker_count |-> Len(added.self.participants),
                                   audio_sources |-> added.self.audio_sources ]
                  /\ UNCHANGED <<now, calls>>

\* receive_audio as a worker thread of the threaded server runs it, lines
\* 324-344: the checks and the arguments, up to the call of add_utterance.
\* No statement of receive_audio or of add_utterance takes a lock.
receive_audio_enter(thread, meeting_id, data) ==
  /\ calls[thread].pc = "idle"
  /\ IF meeting_id \notin DOMAIN meetings
     THEN response' = NotFound("audio") /\ UNCHANGED <<meetings, now, calls>>
     ELSE IF DOMAIN data = {}
     THEN /\ response' = [route |-> "audio", code |-> 400, error |-> "No data provided"]
          /\ UNCHANGED <<meetings, now, calls>>
     ELSE LET text == strip(GetOr(data, "text", <<>>))
              voice_features == GetOr(data, "voice_features", DefaultVoiceFeatures)
              audio_source == GetOr(data, "audio_source", "microphone")
              channel == GetOr(data, "channel", "mono")
          IN IF text = <<>>
             THEN /\ response' = [ route |-> "audio", code |-> 400,
                                   error |-> "No text provided" ]
                  /\ UNCHANGED <<meetings, now, calls>>
             ELSE /\ calls' = [calls EXCEPT ![thread] =
                                 [ pc |-> "speaker",
                                   meeting_id |-> meeting_id,
                                   text |-> text,
                                   voice_features |-> ("channel" :> channel) @@ voice_features,
                                   audio_source |-> audio_source ]]
                  /\ UNCHANGED <<meetings, now, response>>

\* the thread's add_utterance, lines 141-157: the speaker and the entry first built
add_utterance_speaker(thread) ==
  /\ calls[thread].pc = "speaker"
  /\ LET call == calls[thread]
         resolved == get_or_create_speaker(meetings[call.meeting_id], call.voice_features,
                                           call.audio_source, now)
         speaker_data == resolved.self.participants[resolved.speaker_id]
     IN /\ meetings' = [meetings EXCEPT ![call.meeting_id] = resolved.self]
        /\ calls' = [calls EXCEPT ![thread] =
                       [ pc |-> "classify",
                         meeting_id |-> call.meeting_id,
                         text |-> call.text,
                         audio_source |-> call.audio_source,
                         entry |-> new_entry(resolved.speaker_id, speaker_data, call.text,
                                             call.voice_features, call.audio_source, now) ]]
  /\ UNCHANGED <<now, response>>

\* the thread's add_utterance, lines 159-195: len(self.transcript) is read and
\* the pending stack is pushed or popped here, before the entry is appended
add_utterance_classify(thread) ==
  /\ calls[thread].pc = "classify"
  /\ LET call == calls[thread]
         classified == classify_entry(meetings[call.meeting_id], call.entry, call.text, now)
     IN /\ meetings' = [meetings EXCEPT ![call.meeting_id] = classified.self]
        /\ calls' = [calls EXCEPT ![thread] =
                       [ pc |-> "append",
                         meeting_id |-> call.meeting_id,
                         audio_source |-> call.audio_source,
                         entry |-> classified.entry ]]
  /\ UNCHANGED <<now, response>>

\* the thread's add_utterance, lines 197-199, and the reply of lines 348-352
add_utterance_append(thread) ==
  /\ calls[thread].pc = "append"
  /\ LET call == calls[thread]
         self == append_entry(meetings[call.meeting_id], call.entry, call.audio_source)
     IN /\ meetings' = [meetings EXCEPT ![call.meeting_id] = self]
        /\ response' = [ route |-> "audio", code |-> 200,
                         entry |-> call.entry,
                         speaker_count |-> Len(self.participants),
                         audio_sources |-> self.audio_sources ]
  /\ calls' = [calls EXCEPT ![thread] = Idle]
  /\ UNCHANGED now

\* POST /api/meeting/<meeting_id>/stop
stop_meeting(meeting_id) ==
  IF meeting_id \notin DOMAIN meetings
  THEN response' = NotFound("stop") /\ UNCHANGED <<meetings, now, calls>>
  ELSE \E stopped \in {[meetings[meeting_id] EXCEPT !.end_time = now]} :
         /\ meetings' = [meetings EXCEPT ![meeting_id] = stopped]
         /\ response' = [ route |-> "stop", code |-> 200,
                          status |-> "stopped",
                          duration |-> calculate_duration(stopped) ]
         /\ UNCHANGED <<now, calls>>

\* transcript[recent:] for recent >= 0
slice_from(transcript, recent) == SubSeq(transcript, recent + 1, Len(transcript))

\* GET /api/meeting/<meeting_id>/status as a worker thread runs it, lines
\* 359-365: the check and the slice of the transcript.  No statement of
\* get_status takes a lock.
get_status_read(thread, meeting_id, since) ==
  /\ calls[thread].pc = "idle"
  /\ IF meeting_id \notin DOMAIN meetings
     THEN response' = NotFound("status") /\ UNCHANGED <<meetings, now, calls>>
     ELSE /\ calls' = [calls EXCEPT ![thread] =
                         [ pc |-> "status",
                           meeting_id |-> meeting_id,
                           recent |-> since,
                           new_entries |-> slice_from(meetings[meeting_id].transcript,
                                                      since) ]]
          /\ UNCHANGED <<meetings, now, response>>

\* the thread's get_status, lines 367-382: the reply, built from the slice taken
\* and from the fields of the meeting as they now stand.  `since` is the query
\* argument the reply answers, kept beside it.
get_status_reply(thread) ==
  /\ calls[thread].pc = "status"
  /\ LET call == calls[thread]
         meeting == meetings[call.meeting_id]
     IN response' =
          [ route |-> "status", code |-> 200,
            since |-> call.recent,
            entries |-> call.new_entries,
            total_count |-> Len(meeting.transcript),
            participants |->
              [k \in DOMAIN meeting.participants |->
                 [ name |-> meeting.participants[k].name,
                   is_remote |-> meeting.participants[k].is_remote,
                   source |-> meeting.participants[k].audio_source ]],
            audio_sources |-> meeting.audio_sources,
            is_active |-> meeting.end_time = None,
            meeting_type |-> meeting.meeting_type,
            unanswered_questions |-> Len(meeting.unanswered_questions) ]
  /\ calls' = [calls EXCEPT ![thread] = Idle]
  /\ UNCHANGED <<meetings, now>>

\* Variant of generate_pdf that drains the pending stack as it reports, which
\* C10 excludes
generate_pdf_draining(meeting_id) ==
  /\ response' = IF meeting_id \notin DOMAIN meetings THEN NotFound("pdf")
                 ELSE [ route |-> "pdf", code |-> 200,
                        minutes |-> get_minutes_structure(meetings[meeting_id], now) ]
  /\ meetings' = [id \in DOMAIN meetings |->
                   IF id = meeting_id
                   THEN [meetings[id] EXCEPT !.unanswered_questions = <<>>]
                   ELSE meetings[id]]
  /\ UNCHANGED <<now, calls>>

\* GET /api/meeting/<meeting_id>/pdf, up to the minutes the page layout is given
generate_pdf(meeting_id) ==
  /\ response' = IF meeting_id \notin DOMAIN meetings THEN NotFound("pdf")
                 ELSE [ route |-> "pdf", code |-> 200,
                        minutes |-> get_minutes_structure(meetings[meeting_id], now) ]
  /\ UNCHANGED <<meetings, now, calls>>

(***************************************************************************)
(* The requests the routes are called with.                                *)
(***************************************************************************)
\* two voices further apart than either threshold, each on its own audio source
VoiceA == [avg_pitch |-> 100, words_per_minute |-> 120, energy |-> 5000]
VoiceB == [avg_pitch |-> 180, words_per_minute |-> 150, energy |-> 5000]

Speaking(text, voice_features) ==
  [ text |-> text, voice_features |-> voice_features,
    audio_source |-> IF voice_features = VoiceA THEN "microphone" ELSE "tab_audio" ]

Said(texts) == {Speaking(t, v) : t \in texts, v \in {VoiceA, VoiceB}}

\* Spec: statements, answers, decisions and action items, short and long
AudioRequests ==
  Said({ text_question, text_plain, text_yes, text_period, text_decision,
         text_action, text_long101, text_blank }) \cup {<<>>}

\* SpecThread: the three texts that keep a question pending or answer it
AudioRequestsThread == Said({text_question, text_plain, text_yes})

\* SpecQuestion: the three ways of asking, and an answer of exactly 100 characters
AudioRequestsQuestion ==
  Said({ text_question, text_yes_question, text_starter_question, text_yes,
         text_long100 })

StartRequests == {[meeting_type |-> "physical"], <<>>}

RequestIds == MeetingIds \cup {UnknownId}

\* the transcript of every meeting is shorter than n
Room(n) == \A id \in DOMAIN meetings : Len(meetings[id].transcript) < n

(***************************************************************************)
(* Specifications: requests served one at a time.                          *)
(***************************************************************************)
Init ==
  /\ meetings = <<>>
  /\ now = 0
  /\ response = NoResponse
  /\ calls = [t \in Threads |-> Idle]

StartStep == \E data \in StartRequests : start_meeting(data)
PdfStep == \E id \in RequestIds : generate_pdf(id)

AudioStep ==
  Room(MaxLen) /\ \E id \in RequestIds, data \in AudioRequests : receive_audio(id, data)

Next == StartStep \/ AudioStep \/ PdfStep

Spec == Init /\ [][Next]_vars

AudioStepThread ==
  /\ Room(MaxLenThread)
  /\ \E id \in MeetingIds, data \in AudioRequestsThread : receive_audio(id, data)

NextThread == StartStep \/ AudioStepThread

SpecThread == Init /\ [][NextThread]_vars

AudioStepQuestion ==
  /\ Room(MaxLenQuestion)
  /\ \E id \in MeetingIds, data \in AudioRequestsQuestion : receive_audio(id, data)

NextQuestion == StartStep \/ AudioStepQuestion

SpecQuestion == Init /\ [][NextQuestion]_vars

(***************************************************************************)
(* Specification: two worker threads serve receive_audio calls at once.    *)
(***************************************************************************)
\* SpecConcurrent: a question and a plain statement, by either voice
AudioRequestsConcurrent == Said({text_question, text_plain})

\* the calls in progress for a meeting
InFlight(meeting_id) ==
  {t \in Threads : /\ calls[t].pc \in {"speaker", "classify", "append"}
                   /\ calls[t].meeting_id = meeting_id}

EnterStep ==
  \E thread \in Threads, id \in RequestIds, data \in AudioRequestsConcurrent :
    /\ id \in DOMAIN meetings =>
         Len(meetings[id].transcript) + Cardinality(InFlight(id)) < MaxLenConcurrent
    /\ receive_audio_enter(thread, id, data)

SpeakerStep == \E thread \in Threads : add_utterance_speaker(thread)
ClassifyStep == \E thread \in Threads : add_utterance_classify(thread)
AppendStep == \E thread \in Threads : add_utterance_append(thread)

NextConcurrent == StartStep \/ EnterStep \/ SpeakerStep \/ ClassifyStep \/ AppendStep

SpecConcurrent == Init /\ [][NextConcurrent]_vars

(***************************************************************************)
(* Specification: status reads served while receive_audio calls run.       *)
(***************************************************************************)
\* the values of the query argument `since`
StatusSince == {0, 1}

EnterStepStatus ==
  \E thread \in Threads, id \in MeetingIds, data \in AudioRequestsConcurrent :
    /\ id \in DOMAIN meetings =>
         Len(meetings[id].transcript) + Cardinality(InFlight(id)) < MaxLenStatus
    /\ receive_audio_enter(thread, id, data)

StatusReadStep ==
  \E thread \in Threads, id \in RequestIds, since \in StatusSince :
    get_status_read(thread, id, since)

StatusReplyStep == \E thread \in Threads : get_status_reply(thread)

NextStatus ==
  \/ StartStep \/ EnterStepStatus \/ SpeakerStep \/ ClassifyStep \/ AppendStep
  \/ StatusReadStep \/ StatusReplyStep

SpecStatus == Init /\ [][NextStatus]_vars

(***************************************************************************)
(* Specification: a meeting started and stopped as the clock advances.     *)
(***************************************************************************)
\* The readings of datetime.now(), in milliseconds: within a second, a minute
\* and an hour of each other, and beyond
ClockReadings ==
  {0, 999, 1000, 59999, 60000, 65000, 65999, 3599999, 3600000, 3665000, 7325000}

\* time passes between two requests
Tick ==
  /\ \E reading \in ClockReadings : reading > now /\ now' = reading
  /\ UNCHANGED <<meetings, response, calls>>

StopStep == \E id \in RequestIds : stop_meeting(id)

NextClock == StartStep \/ StopStep \/ PdfStep \/ Tick

SpecClock == Init /\ [][NextClock]_vars

(***************************************************************************)
(* Specification: one text, said by voices near and far from each other.   *)
(***************************************************************************)
\* a voice of the given pitch, pace and energy
Voice(avg_pitch, words_per_minute, energy) ==
  [avg_pitch |-> avg_pitch, words_per_minute |-> words_per_minute, energy |-> energy]

\* Pitches at distances on both sides of a score of 20 and of 25, a faster and a
\* louder voice that still match the first, and a sample that carries no feature
VoiceFeatures ==
  { Voice(100, 120, 5000), Voice(130, 120, 5000), Voice(140, 120, 5000),
    Voice(150, 120, 5000), Voice(100, 150, 5000), Voice(100, 120, 5500), <<>> }

\* SpecSpeaker: each voice on either audio source, and a request with no
\* voice_features at all
AudioRequestsSpeaker ==
  { [text |-> text_plain, voice_features |-> v, audio_source |-> a] :
      v \in VoiceFeatures, a \in {"microphone", "tab_audio"} }
    \cup {[text |-> text_plain]}

StartRequestsSpeaker == {[meeting_type |-> "physical"], [meeting_type |-> "hybrid"]}

StartStepSpeaker == \E data \in StartRequestsSpeaker : start_meeting(data)

AudioStepSpeaker ==
  /\ Room(MaxLenSpeaker)
  /\ \E id \in MeetingIds, data \in AudioRequestsSpeaker : receive_audio(id, data)

NextSpeaker == StartStepSpeaker \/ AudioStepSpeaker

SpecSpeaker == Init /\ [][NextSpeaker]_vars

(***************************************************************************)
(* Properties.                                                             *)
(***************************************************************************)
Last(list) == list[Len(list)]
Front(list) == SubSeq(list, 1, Len(list) - 1)

AudioOk(r) == r.route = "audio" /\ r.code = 200
PdfOk(r) == r.route = "pdf" /\ r.code = 200

\* this step appends one entry to the transcript of meeting id
Appended(id) ==
  Len(meetings'[id].transcript) = Len(meetings[id].transcript) + 1

\* every question of the transcript carries its own position as question_id, and
\* the pending stack holds positions of questions, each once and in order
IndicesArePositions(self) ==
  /\ \A k \in 1..Len(self.transcript) :
       self.transcript[k].type = "question" =>
         Get(self.transcript[k], "question_id") = k - 1
  /\ \A k \in 1..Len(self.unanswered_questions) :
       LET q == self.unanswered_questions[k]
       IN /\ q.index \in 0..(Len(self.transcript) - 1)
          /\ At(self.transcript, q.index).type = "question"
          /\ k > 1 => self.unanswered_questions[k - 1].index < q.index

\* a step that returns a successful receive_audio reply appends the entry it
\* returns to one transcript, keeps what was there, and indexes it by the old length
AppendsAtEnd ==
  AudioOk(response') =>
    \E id \in DOMAIN meetings :
      LET old == meetings[id]
          new == meetings'[id]
          entry == Last(new.transcript)
      IN /\ Appended(id)
         /\ Front(new.transcript) = old.transcript
         /\ entry = response'.entry
         /\ entry.type = "question" =>
              /\ Get(entry, "question_id") = Len(old.transcript)
              /\ Len(new.unanswered_questions) = Len(old.unanswered_questions) + 1
              /\ Last(new.unanswered_questions).index = Len(old.transcript)
         /\ \A other \in DOMAIN meetings \ {id} : meetings'[other] = meetings[other]

\* no other step touches a transcript
OnlyAppendsChangeTranscripts ==
  \A id \in DOMAIN meetings :
    meetings'[id].transcript # meetings[id].transcript => AudioOk(response')

\* C1: in a sequential run every successful append adds exactly one entry at the
\* end of the transcript and changes no earlier entry, the index it records (the
\* question_id, the index pushed on the pending stack) is the transcript length
\* before the call, and so every recorded index is the position of its entry
C1_AppendsAtEndWithItsIndex ==
  /\ [](\A id \in DOMAIN meetings : IndicesArePositions(meetings[id]))
  /\ [][AppendsAtEnd /\ OnlyAppendsChangeTranscripts]_vars

\* a third entry that is a question, appended behind two others and still pending
C1_Witness ==
  /\ AudioOk(response)
  /\ \E id \in DOMAIN meetings :
       LET self == meetings[id]
       IN /\ Len(self.transcript) = MaxLen
          /\ Last(self.transcript) = response.entry
          /\ Last(self.transcript).type = "question"
          /\ Get(Last(self.transcript), "question_id") = MaxLen - 1
          /\ self.unanswered_questions # <<>>
          /\ Last(self.unanswered_questions).index = MaxLen - 1

\* no receive_audio call is in progress
Quiescent == \A thread \in Threads : calls[thread].pc = "idle"

\* C2: receive_audio calls that run at once for one meeting leave it as some
\* serial order of them would: no two entries with one question_id, no index twice
\* on the pending stack, every recorded index the position of its entry
C2_ConcurrentAppendsAreSerial ==
  Quiescent => \A id \in DOMAIN meetings : IndicesArePositions(meetings[id])

\* the text is one the code takes for a question
Asks(text) == IsQuestion(text) \/ endswith(text, <<"?">>)

\* the entry a step appends to meeting id
NewEntry(id) == Last(meetings'[id].transcript)

\* the index of that entry: i in the statements below
NewIndex(id) == Len(meetings[id].transcript)

NoAnswersQuestion(entry) == "answers_question" \notin DOMAIN entry

AnswersTop(id) ==
  /\ NewEntry(id).type = "answer"
  /\ Get(NewEntry(id), "answers_question") = Last(meetings[id].unanswered_questions).index

\* C3: a non-question entry at index i by speaker s whose text begins with no
\* answer-starter is an answer to the top pending question q exactly when
\* i - q.index <= 4 and s is not q.speaker; otherwise, and whenever the stack is
\* empty, it is a statement with no answers_question
C3_AnswerByDistanceAndSpeaker ==
  [][\A id \in DOMAIN meetings :
       (/\ Appended(id)
        /\ ~Asks(NewEntry(id).text)
        /\ ~StartsLikeAnswer(NewEntry(id).text)) =>
         LET stack == meetings[id].unanswered_questions
         IN IF /\ stack # <<>>
               /\ NewIndex(id) - Last(stack).index <= 4
               /\ NewEntry(id).speaker_id # Last(stack).speaker
            THEN AnswersTop(id)
            ELSE NewEntry(id).type = "statement" /\ NoAnswersQuestion(NewEntry(id))
    ]_vars

\* a question at index 0, four statements of its asker, then another speaker five
\* entries later: a statement, with the question still pending
C3_Witness ==
  \E id \in DOMAIN meetings :
    LET self == meetings[id]
    IN /\ Len(self.transcript) = 6
       /\ self.transcript[1].type = "question"
       /\ \A k \in 2..6 : self.transcript[k].type = "statement"
       /\ self.transcript[6].speaker_id # self.transcript[1].speaker_id
       /\ ~StartsLikeAnswer(self.transcript[6].text)
       /\ self.unanswered_questions # <<>>
       /\ Last(self.unanswered_questions).index = 0

\* C4: a non-question entry changes the pending stack only by popping its top q,
\* and pops exactly when it is an answer to q and i - q.index >= 2, or its text
\* ends with '.', or its text is longer than 100 characters
C4_PopsOnlyTheAnsweredTop ==
  [][\A id \in DOMAIN meetings :
       (Appended(id) /\ ~Asks(NewEntry(id).text)) =>
         LET stack == meetings[id].unanswered_questions
         IN meetings'[id].unanswered_questions =
              IF /\ stack # <<>>
                 /\ AnswersTop(id)
                 /\ \/ NewIndex(id) - Last(stack).index >= 2
                    \/ endswith(NewEntry(id).text, <<".">>)
                    \/ Len(NewEntry(id).text) > 100
              THEN Front(stack)
              ELSE stack
    ]_vars

\* a question, a short quick answer that leaves it pending, then a second
\* answer to it that pops it
C4_Witness ==
  \E id \in DOMAIN meetings :
    LET self == meetings[id]
    IN /\ Len(self.transcript) = 3
       /\ self.transcript[1].type = "question"
       /\ self.transcript[2].type = "answer"
       /\ ~endswith(self.transcript[2].text, <<".">>)
       /\ Len(self.transcript[2].text) <= 100
       /\ self.transcript[3].type = "answer"
       /\ Get(self.transcript[3], "answers_question") = 0
       /\ self.unanswered_questions = <<>>

\* C5: with a pending question, a non-question entry whose text begins with an
\* answer-starter is an answer to the top pending question, however far back the
\* question is and whoever speaks
C5_StarterAlwaysAnswers ==
  [][\A id \in DOMAIN meetings :
       (/\ Appended(id)
        /\ ~Asks(NewEntry(id).text)
        /\ StartsLikeAnswer(NewEntry(id).text)
        /\ meetings[id].unanswered_questions # <<>>) => AnswersTop(id)
    ]_vars

\* the asker says "Yes" five entries after the question: an answer to it
C5_Witness ==
  \E id \in DOMAIN meetings :
    LET self == meetings[id]
    IN /\ Len(self.transcript) = 6
       /\ self.transcript[1].type = "question"
       /\ \A k \in 2..5 : self.transcript[k].type = "statement"
       /\ self.transcript[6].text = text_yes
       /\ self.transcript[6].speaker_id = self.transcript[1].speaker_id
       /\ self.transcript[6].type = "answer"
       /\ Get(self.transcript[6], "answers_question") = 0

\* C6: a text detected as a question, any text ending in '?' included, gives a
\* question entry whatever is pending and whatever the text begins with: no
\* answers_question, one record pushed with its index and speaker, nothing popped
C6_QuestionTakesPrecedence ==
  [][\A id \in DOMAIN meetings :
       (Appended(id) /\ Asks(NewEntry(id).text)) =>
         LET stack == meetings[id].unanswered_questions
             pushed == meetings'[id].unanswered_questions
         IN /\ NewEntry(id).type = "question"
            /\ NoAnswersQuestion(NewEntry(id))
            /\ Len(pushed) = Len(stack) + 1
            /\ Front(pushed) = stack
            /\ Last(pushed).index = NewIndex(id)
            /\ Last(pushed).speaker = NewEntry(id).speaker_id
    ]_vars

\* "yes?" said by another speaker right after a question: a second question
C6_Witness ==
  \E id \in DOMAIN meetings :
    LET self == meetings[id]
    IN /\ Len(self.transcript) = 2
       /\ self.transcript[1].type = "question"
       /\ self.transcript[2].text = text_yes_question
       /\ self.transcript[2].speaker_id # self.transcript[1].speaker_id
       /\ self.transcript[2].type = "question"
       /\ Len(self.unanswered_questions) = 2
       /\ Last(self.unanswered_questions).index = 1

\* the minutes of a meeting as generate_pdf would now report them
MinutesOf(id) == get_minutes_structure(meetings[id], now)

\* the indices a Q&A group holds, one for each place it holds them in
GroupMembers(qa) == <<qa.question>> \o qa.answers \o qa.follow_up_questions

\* the indices of all Q&A groups, one for each place a group holds them in
RECURSIVE AllGroupMembers(_)
AllGroupMembers(qa_pairs) ==
  IF qa_pairs = <<>> THEN <<>>
  ELSE GroupMembers(qa_pairs[1]) \o AllGroupMembers(Tail(qa_pairs))

\* how often x occurs in the list
Occurrences(list, x) == Cardinality({k \in 1..Len(list) : list[k] = x})

\* C7: the minutes place no entry in two of the four sections: an entry a Q&A
\* group uses is in none of decisions, action items and discussion points, and
\* these three have no entry in common
C7_SectionsAreDisjoint ==
  \A id \in DOMAIN meetings :
    LET minutes == MinutesOf(id)
        used == Range(AllGroupMembers(minutes.qa_pairs))
        decisions == Range(minutes.decisions)
        action_items == Range(minutes.action_items)
        points == Range(minutes.key_discussion_points)
    IN /\ used \cap (decisions \cup action_items \cup points) = {}
       /\ decisions \cap action_items = {}
       /\ decisions \cap points = {}
       /\ action_items \cap points = {}

\* an answer that also records a decision is reported with its question only,
\* next to a decision no group uses
C7_Witness ==
  \E id \in DOMAIN meetings :
    LET self == meetings[id]
        minutes == MinutesOf(id)
    IN /\ Len(self.transcript) = 3
       /\ self.transcript[1].type = "question"
       /\ self.transcript[2].type = "answer"
       /\ Flag(self.transcript[2], "is_decision")
       /\ Flag(self.transcript[3], "is_decision")
       /\ minutes.qa_pairs[1].answers = <<1>>
       /\ minutes.decisions = <<2>>

\* C8: a Q&A group is opened only for a question no earlier group has consumed,
\* so each entry occurs at most once across the groups, as a question, an answer
\* or a follow-up question
C8_EachEntryInOneGroup ==
  \A id \in DOMAIN meetings :
    LET members == AllGroupMembers(MinutesOf(id).qa_pairs)
    IN \A k \in 1..Len(members) : Occurrences(members, members[k]) = 1

\* C9: the scan for the question at index i goes on past entries that are neither
\* answers to i nor questions, so every entry with answers_question = i that only
\* non-questions separate from i is among the answers of the group of i
C9_ScanPassesStatements ==
  \A id \in DOMAIN meetings :
    LET transcript == meetings[id].transcript
        qa_pairs == MinutesOf(id).qa_pairs
    IN \A i \in 0..(Len(transcript) - 1), k \in 0..(Len(transcript) - 1) :
         (/\ i < k
          /\ At(transcript, i).type = "question"
          /\ GetOr(At(transcript, k), "answers_question", None) = i
          /\ \A j \in (i + 1)..(k - 1) : At(transcript, j).type # "question") =>
           \E g \in 1..Len(qa_pairs) :
             qa_pairs[g].question = i /\ k \in Range(qa_pairs[g].answers)

\* what the minutes group and list
Sections(minutes) ==
  [ qa_pairs |-> minutes.qa_pairs,
    decisions |-> minutes.decisions,
    action_items |-> minutes.action_items,
    key_discussion_points |-> minutes.key_discussion_points,
    used_indices |-> Range(AllGroupMembers(minutes.qa_pairs)) ]

\* C10: synthesizing the minutes changes nothing of the meeting, and a further
\* run over the meeting it leaves, with no append in between, gives the groups,
\* lists and used indices it has reported
C10_MinutesReadOnlyIdempotent ==
  /\ [](PdfOk(response) =>
          \E id \in DOMAIN meetings :
            Sections(response.minutes) = Sections(MinutesOf(id)))
  /\ [][response'.route = "pdf" => UNCHANGED <<meetings, now>>]_vars

\* minutes reported for a meeting of three entries with a question pending and
\* a group of a question and its answer
C10_Witness ==
  /\ PdfOk(response)
  /\ response.minutes.qa_pairs # <<>>
  /\ response.minutes.qa_pairs[1].answers # <<>>
  /\ \E id \in DOMAIN meetings :
       /\ Len(meetings[id].transcript) = 3
       /\ meetings[id].unanswered_questions # <<>>

\* the sample of the entry, as the features get_or_create_speaker was given
SampleOf(entry) ==
  [ avg_pitch |-> entry.voice_features.pitch,
    words_per_minute |-> entry.voice_features.pace,
    energy |-> entry.voice_features.energy ]

\* the sample of the entry carries pitch, pace and energy
HasAllFeatures(entry) ==
  /\ entry.voice_features.pitch # None
  /\ entry.voice_features.pace # None
  /\ entry.voice_features.energy # None

\* the threshold of a session, as the statement of C11 gives it
SessionThreshold(meeting_type) == IF meeting_type = "hybrid" THEN 25 ELSE 20

\* a score (500 times it, as hi + lo/Unit) is strictly below the whole number t
StrictlyBelow(score, t) == score.hi < 500 * t

\* score a is strictly below score b
Closer(a, b) == a.hi < b.hi \/ (a.hi = b.hi /\ a.lo < b.lo)

\* C11: resolve returns an existing profile exactly when some profile scores
\* strictly below the session threshold (25 if hybrid, 20 otherwise), and then
\* one of minimum score; otherwise it creates exactly one profile and returns its
\* id; the number of profiles never decreases
C11_ResolveClosestBelowThreshold ==
  [][\A id \in DOMAIN meetings :
       /\ Len(meetings'[id].participants) >= Len(meetings[id].participants)
       /\ (Appended(id) /\ HasAllFeatures(NewEntry(id))) =>
            LET old == meetings[id].participants
                new == meetings'[id].participants
                sample == SampleOf(NewEntry(id))
                resolved == NewEntry(id).speaker_id
                below == {k \in 1..Len(old) :
                            StrictlyBelow(speaker_score(old[k], sample),
                                          SessionThreshold(meetings[id].meeting_type))}
            IN IF below # {}
               THEN /\ resolved \in below
                    /\ \A k \in below :
                         ~Closer(speaker_score(old[k], sample),
                                 speaker_score(old[resolved], sample))
                    /\ Len(new) = Len(old)
               ELSE /\ Len(new) = Len(old) + 1
                    /\ resolved \notin 1..Len(old)
                    /\ resolved = new[Len(new)].voice_id
    ]_vars

\* a physical session with profiles at pitch 100 and 140 (a score of exactly
\* 20 apart): a sample at 130 scores below 20 against both and goes to the second
C11_Witness ==
  \E id \in DOMAIN meetings :
    LET self == meetings[id]
    IN /\ self.meeting_type = "physical"
       /\ Len(self.transcript) = 3
       /\ Len(self.participants) = 2
       /\ self.transcript[1].voice_features.pitch = 100
       /\ self.transcript[2].voice_features.pitch = 140
       /\ self.transcript[3].voice_features = [pitch |-> 130, pace |-> 120, energy |-> 5000]
       /\ self.transcript[3].speaker_id = 2

\* the sample of the entry carries none of pitch, pace and energy
HasNoFeature(entry) ==
  /\ entry.voice_features.pitch = None
  /\ entry.voice_features.pace = None
  /\ entry.voice_features.energy = None

\* C12: a feature missing from the input counts as its prior (pitch 100, pace
\* 120, energy 5000) in scoring as in initialising and smoothing, so that two
\* consecutive utterances that both lack all features resolve to one speaker
C12_MissingFeaturesResolveAlike ==
  \A id \in DOMAIN meetings :
    LET transcript == meetings[id].transcript
    IN \A k \in 1..(Len(transcript) - 1) :
         (HasNoFeature(transcript[k]) /\ HasNoFeature(transcript[k + 1])) =>
           transcript[k + 1].speaker_id = transcript[k].speaker_id

\* C13: an append for an unknown session id is rejected as not found, one whose
\* text is empty after trimming as bad input, and neither changes anything of
\* any session
C13_RejectedAppendsChangeNothing ==
  [][\A id \in RequestIds, data \in AudioRequests :
       /\ (id \notin DOMAIN meetings /\ receive_audio(id, data)) =>
            /\ response' = NotFound("audio")
            /\ meetings' = meetings
       /\ (/\ id \in DOMAIN meetings
           /\ strip(GetOr(data, "text", <<>>)) = <<>>
           /\ receive_audio(id, data)) =>
            /\ response'.route = "audio" /\ response'.code = 400
            /\ meetings' = meetings
    ]_vars

\* a request with a blank text has been refused for a session that holds entries
C13_Witness ==
  /\ response = [route |-> "audio", code |-> 400, error |-> "No text provided"]
  /\ \E id \in DOMAIN meetings :
       /\ meetings[id].transcript # <<>>
       /\ meetings[id].unanswered_questions # <<>>

StatusOk(r) == r.route = "status" /\ r.code = 200

\* C14: a status read that runs while an append runs reports one state of the
\* session, the one before the append or the one after it: the total count is
\* the since offset plus the number of entries returned, and a reply that holds
\* the whole transcript reports no participant without an entry and no more
\* pending questions than it holds questions
C14_StatusViewsOneState ==
  StatusOk(response) =>
    /\ response.since <= response.total_count =>
         response.total_count = response.since + Len(response.entries)
    /\ response.since = 0 =>
         /\ \A k \in DOMAIN response.participants :
              \E n \in 1..Len(response.entries) : response.entries[n].speaker_id = k
         /\ response.unanswered_questions <=
              Cardinality({n \in 1..Len(response.entries) :
                             response.entries[n].type = "question"})

\* the duration text for d whole seconds, as the statement of C15 gives it
DurationText(d) ==
  LET h == d \div 3600
      m == (d % 3600) \div 60
      sec == d % 60
  IN IF h > 0 THEN <<h, "h ", m, "m ", sec, "s">>
     ELSE IF m > 0 THEN <<m, "m ", sec, "s">>
     ELSE <<sec, "s">>

\* the duration of a meeting as C15 states it
DurationOf(self) ==
  IF self.start_time = None \/ self.end_time = None THEN <<"In progress">>
  ELSE DurationText((self.end_time - self.start_time) \div 1000)

StopOk(r) == r.route = "stop" /\ r.code = 200

\* C15: the duration is "In progress" while the start or the end timestamp is
\* missing, and otherwise "{h}h {m}m {s}s", "{m}m {s}s" or "{s}s" for the whole
\* seconds between them; stopping records the end timestamp and returns it
C15_DurationText ==
  /\ [](\A id \in DOMAIN meetings :
          calculate_duration(meetings[id]) = DurationOf(meetings[id]))
  /\ [](PdfOk(response) =>
          \E id \in DOMAIN meetings : response.minutes.duration = DurationOf(meetings[id]))
  /\ [][(StopOk(response') /\ now' = now) =>
          \E id \in DOMAIN meetings :
            /\ meetings'[id] = [meetings[id] EXCEPT !.end_time = now]
            /\ response'.duration = DurationOf(meetings'[id])
            /\ response'.duration # <<"In progress">>
       ]_vars

\* a meeting stopped 65.999 seconds after its start: "1m 5s"
C15_Witness ==
  /\ StopOk(response)
  /\ response.duration = <<1, "m ", 5, "s">>
  /\ \E id \in DOMAIN meetings :
       meetings[id].end_time - meetings[id].start_time = 65999

\* every group of minutes `before` is a group of `after`, with the same question
\* and at least its answers and follow-up, and each list of `before` is within
\* the same list of `after`
Kept(before, after) ==
  /\ Len(after.qa_pairs) >= Len(before.qa_pairs)
  /\ \A g \in 1..Len(before.qa_pairs) :
       /\ after.qa_pairs[g].question = before.qa_pairs[g].question
       /\ Range(before.qa_pairs[g].answers) \subseteq Range(after.qa_pairs[g].answers)
       /\ Range(before.qa_pairs[g].follow_up_questions)
            \subseteq Range(after.qa_pairs[g].follow_up_questions)
  /\ Range(before.decisions) \subseteq Range(after.decisions)
  /\ Range(before.action_items) \subseteq Range(after.action_items)
  /\ Range(before.key_discussion_points) \subseteq Range(after.key_discussion_points)

\* C16: as the transcript grows by appends the minutes are stable: an entry in a
\* Q&A group (question, answer or follow-up), in decisions, in action items or
\* in key discussion points is in that same place in the minutes computed after
\* further appends (each append keeps every place, hence any number of them)
C16_MinutesStableUnderAppends ==
  [][\A id \in DOMAIN meetings :
       Appended(id) =>
         /\ Front(meetings'[id].transcript) = meetings[id].transcript
         /\ Kept(get_minutes_structure(meetings[id], now),
                 get_minutes_structure(meetings'[id], now'))
    ]_vars

\* a question, its quick answer and a long statement of the asker: the group
\* and its answer of the first two entries stand, a discussion point is added
C16_Witness ==
  \E id \in DOMAIN meetings :
    LET minutes == MinutesOf(id)
    IN /\ Len(meetings[id].transcript) = 3
       /\ Len(minutes.qa_pairs) = 1
       /\ minutes.qa_pairs[1].question = 0
       /\ minutes.qa_pairs[1].answers = <<1>>
       /\ minutes.key_discussion_points = <<2>>

\* C17: a Q&A group has at most one follow-up question: the entry at which its
\* scan stopped, a question of the speaker of the group's question that is not
\* the final entry; a question of another speaker ends the scan and is not added
C17_FollowUpOfSameSpeaker ==
  \A id \in DOMAIN meetings :
    LET transcript == meetings[id].transcript
        qa_pairs == MinutesOf(id).qa_pairs
    IN \A g \in 1..Len(qa_pairs) :
         LET qa == qa_pairs[g]
             stop == qa.question + Len(qa.answers) + 1
         IN /\ Len(qa.follow_up_questions) <= 1
            /\ \A n \in 1..Len(qa.answers) : qa.answers[n] = qa.question + n
            /\ qa.follow_up_questions # <<>> =>
                 /\ qa.follow_up_questions[1] = stop
                 /\ stop < Len(transcript) - 1
                 /\ At(transcript, stop).type = "question"
                 /\ At(transcript, stop).speaker_id = At(transcript, qa.question).speaker_id
            /\ (/\ stop < Len(transcript)
                /\ At(transcript, stop).type = "question"
                /\ At(transcript, stop).speaker_id # At(transcript, qa.question).speaker_id) =>
                 qa.follow_up_questions = <<>>

\* a question, a question of the same speaker taken as its follow-up, and a
\* question of another speaker that ends the second group and is not added
C17_Witness ==
  \E id \in DOMAIN meetings :
    LET transcript == meetings[id].transcript
        qa_pairs == MinutesOf(id).qa_pairs
    IN /\ Len(transcript) = 3
       /\ \A k \in 1..3 : transcript[k].type = "question"
       /\ transcript[2].speaker_id = transcript[1].speaker_id
       /\ transcript[3].speaker_id # transcript[1].speaker_id
       /\ qa_pairs[1].follow_up_questions = <<1>>
       /\ qa_pairs[2].follow_up_questions = <<>>

\* the step appends to meeting id an entry resolved to a profile that existed
Matched(id) ==
  Appended(id) /\ NewEntry(id).speaker_id \in 1..Len(meetings[id].participants)

\* the profile the appended entry was resolved to, before and after the step
ProfileBefore(id) == meetings[id].participants[NewEntry(id).speaker_id]
ProfileAfter(id) == meetings'[id].participants[NewEntry(id).speaker_id]

\* 10 * new = 3 * sample + 7 * old, for averages in units of 1/scale
Smoothed(new, sample, old, scale) == 10 * new = 3 * sample * scale + 7 * old

\* C18: on a resolve that matches a profile each of its three running averages
\* (pitch, pace, energy) becomes 0.3 * sample + 0.7 * old; on a resolve that
\* creates a profile the raw sample is its initial averages
C18_AllAveragesSmoothed ==
  [][\A id \in DOMAIN meetings :
       (Appended(id) /\ HasAllFeatures(NewEntry(id))) =>
         LET sample == SampleOf(NewEntry(id))
         IN IF Matched(id)
            THEN /\ ProfileAfter(id).avg_pitch =
                      smooth(sample.avg_pitch, ProfileBefore(id).avg_pitch)
                 /\ ProfileAfter(id).avg_pace =
                      smooth(sample.words_per_minute, ProfileBefore(id).avg_pace)
                 /\ Smoothed(ProfileAfter(id).avg_energy, sample.energy,
                             ProfileBefore(id).avg_energy, 1)
            ELSE /\ ProfileAfter(id).avg_pitch = sample.avg_pitch * Unit
                 /\ ProfileAfter(id).avg_pace = sample.words_per_minute * Unit
                 /\ ProfileAfter(id).avg_energy = sample.energy
    ]_vars

\* C19: the voice features of an appended entry are the three smoothed averages
\* of the resolved profile as they stand right after the attribution
C19_EntryHoldsSmoothedFeatures ==
  [][\A id \in DOMAIN meetings :
       (Appended(id) /\ HasAllFeatures(NewEntry(id))) =>
         /\ NewEntry(id).voice_features.pitch * Unit = ProfileAfter(id).avg_pitch
         /\ NewEntry(id).voice_features.pace * Unit = ProfileAfter(id).avg_pace
         /\ NewEntry(id).voice_features.energy = ProfileAfter(id).avg_energy
    ]_vars

\* the audio sources a profile created from is remote
RemoteSources == {"tab_audio", "system_audio", "screen_share"}

\* the entry of the transcript that created profile k: the first resolved to it
CreatingEntry(self, k) ==
  self.transcript[CHOOSE n \in 1..Len(self.transcript) :
                    /\ self.transcript[n].speaker_id = k
                    /\ \A m \in 1..(n - 1) : self.transcript[m].speaker_id # k]

\* C20: name, remote flag and audio source of a profile are set at its creation
\* (remote iff the creating source is tab_audio, system_audio or screen_share;
\* "Participant k", with " (Remote)" iff remote, for the k-th profile) and no
\* later match changes them; the remote flag and speaker name of an entry are
\* those of its profile; no two profiles share a counter value
C20_ProfileIdentityFixed ==
  /\ [](\A id \in DOMAIN meetings :
          LET self == meetings[id]
          IN /\ \A k \in 1..Len(self.participants) :
                  LET profile == self.participants[k]
                  IN /\ profile.audio_source = CreatingEntry(self, k).audio_source
                     /\ profile.is_remote = (profile.audio_source \in RemoteSources)
                     /\ profile.name =
                          [ prefix |-> "Participant ", number |-> k,
                            suffix |-> IF profile.is_remote THEN " (Remote)" ELSE "" ]
             /\ \A n \in 1..Len(self.transcript) :
                  LET entry == self.transcript[n]
                  IN /\ entry.is_remote = self.participants[entry.speaker_id].is_remote
                     /\ entry.speaker_name = self.participants[entry.speaker_id].name)
  /\ [][\A id \in DOMAIN meetings :
          \A k \in 1..Len(meetings[id].participants) :
            /\ meetings'[id].participants[k].name = meetings[id].participants[k].name
            /\ meetings'[id].participants[k].is_remote = meetings[id].participants[k].is_remote
            /\ meetings'[id].participants[k].audio_source =
                 meetings[id].participants[k].audio_source
       ]_vars

\* a profile created from the microphone, then matched by an utterance heard on
\* the shared tab: the profile and both entries are not remote
C20_Witness ==
  \E id \in DOMAIN meetings :
    LET self == meetings[id]
    IN /\ Len(self.participants) = 1
       /\ Len(self.transcript) = 2
       /\ self.transcript[1].audio_source = "microphone"
       /\ self.transcript[2].audio_source = "tab_audio"
       /\ self.participants[1].audio_source = "microphone"
       /\ ~self.participants[1].is_remote
       /\ ~self.transcript[2].is_remote
       /\ self.transcript[2].speaker_name.suffix = ""

\* the positions (from 0) of the entries of the transcript with the given type
PositionsOf(transcript, type) ==
  {n \in 0..(Len(transcript) - 1) : At(transcript, n).type = type}

\* the pending stack of a store is well formed
StackWellFormed(self) ==
  LET stack == self.unanswered_questions
  IN /\ \A a, b \in 1..Len(stack) : a < b => stack[a].index < stack[b].index
     /\ \A a \in 1..Len(stack) :
          /\ stack[a].index \in PositionsOf(self.transcript, "question")
          /\ At(self.transcript, stack[a].index).speaker_id = stack[a].speaker
     /\ Len(stack) <= Cardinality(PositionsOf(self.transcript, "question"))

\* the links of the entries of a store are well formed
LinksWellFormed(self) ==
  \A n \in 0..(Len(self.transcript) - 1) :
    LET entry == At(self.transcript, n)
    IN IF entry.type = "answer"
       THEN /\ "answers_question" \in DOMAIN entry
            /\ entry.answers_question < n
            /\ entry.answers_question \in PositionsOf(self.transcript, "question")
       ELSE /\ entry.type \in {"question", "statement"}
            /\ NoAnswersQuestion(entry)

\* C21: in every state reached by appends served one at a time the pending
\* stack has strictly increasing indices, each the position of a question entry
\* asked by the recorded speaker, and is no larger than the number of question
\* entries; every answer entry is linked to an earlier question entry, and no
\* question or statement entry has a link
C21_StackAndLinksWellFormed ==
  \A id \in DOMAIN meetings :
    StackWellFormed(meetings[id]) /\ LinksWellFormed(meetings[id])

\* two questions pending, the later one answered once and still pending, and a
\* statement that is no answer
C21_Witness ==
  \E id \in DOMAIN meetings :
    LET self == meetings[id]
    IN /\ Len(self.unanswered_questions) = 2
       /\ Cardinality(PositionsOf(self.transcript, "question")) = 3
       /\ \E n \in PositionsOf(self.transcript, "answer") :
            At(self.transcript, n).answers_question = self.unanswered_questions[2].index
       /\ PositionsOf(self.transcript, "statement") # {}

\* the positions (from 0) of the entries linked to the question at position q
LinkedTo(transcript, q) ==
  {n \in PositionsOf(transcript, "answer") : At(transcript, n).answers_question = q}

\* the indices on the pending stack
PendingIndices(self) ==
  {self.unanswered_questions[a].index : a \in 1..Len(self.unanswered_questions)}

\* C22: with appends served one at a time a question entry is linked from at
\* most two entries, and when from two the first of them is the entry right
\* after the question; a question that has left the pending stack never returns
\* to it, and an entry is linked only to a question pending when it is appended
C22_AtMostTwoAnswers ==
  /\ [](\A id \in DOMAIN meetings :
          \A q \in PositionsOf(meetings[id].transcript, "question") :
            LET linked == LinkedTo(meetings[id].transcript, q)
            IN /\ Cardinality(linked) <= 2
               /\ Cardinality(linked) = 2 => q + 1 \in linked)
  /\ [][\A id \in DOMAIN meetings :
          /\ PendingIndices(meetings'[id]) \subseteq
               PendingIndices(meetings[id]) \cup {NewIndex(id)}
          /\ (Appended(id) /\ NewEntry(id).type = "answer") =>
               NewEntry(id).answers_question \in PendingIndices(meetings[id])
       ]_vars

\* a question answered right after it and again two entries later, then off
\* the stack, followed by an answer-like entry that is linked to nothing
C22_Witness ==
  \E id \in DOMAIN meetings :
    LET self == meetings[id]
    IN /\ Len(self.transcript) = 4
       /\ LinkedTo(self.transcript, 0) = {1, 2}
       /\ self.unanswered_questions = <<>>
       /\ StartsLikeAnswer(self.transcript[4].text)
       /\ self.transcript[4].type = "statement"

\* the number of entries of the transcript attributed to speaker k
Attributed(self, k) ==
  Cardinality({n \in 1..Len(self.transcript) : self.transcript[n].speaker_id = k})

\* the sum of the sample counters of the first k profiles
RECURSIVE SumOfSamples(_, _)
SumOfSamples(participants, k) ==
  IF k = 0 THEN 0
  ELSE participants[k].samples_count + SumOfSamples(participants, k - 1)

\* the participant records of the minutes, local and remote
Reported(self) ==
  Range(participant_list(self, FALSE)) \cup Range(participant_list(self, TRUE))

\* C23: after every completed append served alone the sample counter of each
\* profile is the number of entries attributed to it, which is at least one and
\* is the speaking time the minutes report for it; the speaker id of every entry
\* names a profile, and the counters sum to the length of the transcript
C23_SamplesCountEntries ==
  \A id \in DOMAIN meetings :
    LET self == meetings[id]
    IN /\ \A k \in 1..Len(self.participants) :
            /\ self.participants[k].samples_count = Attributed(self, k)
            /\ self.participants[k].samples_count >= 1
            /\ \E info \in Reported(self) :
                 /\ info.name = self.participants[k].name
                 /\ info.speaking_time = self.participants[k].samples_count
       /\ Cardinality(Reported(self)) = Len(self.participants)
       /\ \A n \in 1..Len(self.transcript) :
            self.transcript[n].speaker_id \in 1..Len(self.participants)
       /\ SumOfSamples(self.participants, Len(self.participants)) = Len(self.transcript)

\* two profiles, one local and one remote, the first matched a second time
C23_Witness ==
  \E id \in DOMAIN meetings :
    LET self == meetings[id]
    IN /\ Len(self.participants) = 2
       /\ Len(self.transcript) = 3
       /\ self.participants[1].samples_count = 2
       /\ self.participants[2].samples_count = 1
       /\ self.participants[1].is_remote # self.participants[2].is_remote
       /\ self.transcript[3].speaker_id = 1

====
